---- MODULE Spec2Model ----
(***************************************************************************)
(* Model of client/public.py: the unauthenticated request layer            *)
(* PublicRequest (public_request, _send_public_request).                   *)
(*                                                                         *)
(* One client instance is modelled.  A call of public_request is one call  *)
(* step (argument binding and the two assertions) followed by one          *)
(* iteration step per pass through the retry loop; an iteration is the     *)
(* whole body of the loop: the complete _send_public_request and the       *)
(* except clauses of public_request, the retry sleep included.  What the   *)
(* transport answers to a request is the input of an iteration.            *)
(***************************************************************************)
EXTENDS Integers, Sequences, FiniteSets

\* ---------------------------------------------------------------- bounds
\* largest value of the request counter a call may start from and stay within;
\* the first call of a fresh client is explored whatever its retries_count
MaxRequests == 4
\* largest number of bytes received for a response
MaxLen == 1
\* hashtag_feed: most edges on one page, largest count asked for, most pages
\* one call fetches, most sends one page fetch makes
MaxPageEdges == 2
MaxCount == 3
MaxPages == 3
MaxFetchSends == 2

\* ------------------------------------------------------ program constants
\* assert retries_count <= 10
MaxRetriesCount == 10
\* assert retries_timeout <= 600
MaxRetriesTimeout == 600
\* class attribute request_timeout = 1
DefaultRequestTimeout == 1

\* ----------------------------------------------------------- input sets
\* retries_count arguments: negative, zero, the legal range and one above it
RetriesCounts == (0 - 1)..(MaxRetriesCount + 1)
\* retries_timeout arguments: durations time.sleep accepts (not negative), the
\* largest legal one and one above it
RetriesTimeouts == {0, MaxRetriesTimeout, MaxRetriesTimeout + 1}
\* request_timeout chosen at construction (kwargs.pop("request_timeout", 1))
RequestTimeouts == {0, DefaultRequestTimeout}
\* the data argument: None, an empty body, a non-empty body
NoneData == "None"
DataArgs == {NoneData, "", "payload"}
\* HTTP status codes of a final response
Statuses == {200, 304, 400, 403, 404, 429, 500}
\* Content-Length header: absent, or a number
NoContentLength == 0 - 1
ContentLengths == {NoContentLength} \cup (0..(MaxLen + 1))
\* response.raw.tell(): bytes actually received
ActualLengths == 1..MaxLen
\* the three substrings public_request looks for in a connection error
SOCKS == "SOCKSHTTPSConnectionPool"
MAXRETRIES == "Max retries exceeded with url"
FAILCONN == "Failed to establish a new connection"
Markers == {SOCKS, MAXRETRIES, FAILCONN}

\* session headers are sets of <<name, value>> pairs, one pair per name
DefaultHeaders ==
    { <<"Connection", "Keep-Alive">>, <<"Accept", "*/*">>,
      <<"Accept-Encoding", "gzip,deflate">>, <<"Accept-Language", "en-US">>,
      <<"User-Agent", "Safari">> }
\* per-call headers argument: None, or a mapping
NoneHeaders == [given |-> FALSE, map |-> {}]
HeaderArgs == { NoneHeaders, [given |-> TRUE, map |-> {<<"User-Agent", "custom">>}] }

\* What the transport does with one GET: a response, a requests.ConnectionError
\* whose text contains some of the markers, or another requests exception
\* (a read timeout).
NoResponse ==
    [kind |-> "none", status |-> 0, contentLength |-> NoContentLength,
     tell |-> 0, jsonOk |-> FALSE, login |-> FALSE, markers |-> {}]
Responses ==
    { [kind |-> "response", status |-> s, contentLength |-> cl, tell |-> t,
       jsonOk |-> j, login |-> l, markers |-> {}] :
         s \in Statuses, cl \in ContentLengths, t \in ActualLengths,
         j \in BOOLEAN, l \in BOOLEAN }
ConnectionErrors ==
    { [NoResponse EXCEPT !.kind = "ConnectionError", !.markers = m] :
         m \in SUBSET Markers }
ReadTimeouts == { [NoResponse EXCEPT !.kind = "ReadTimeout"] }
Outcomes == Responses \cup ConnectionErrors \cup ReadTimeouts

VARIABLES
    requests_count,   \* self.requests_count
    request_timeout,  \* self.request_timeout
    public_headers,   \* self.public.headers
    pc,               \* "idle", "loop" (inside the for loop), "done"
    args,             \* arguments of the current public_request call
    iteration,        \* loop variable of public_request
    sends,            \* _send_public_request invocations since construction
    callLog,          \* sends and retry sleeps of the current call, in order
    attemptLog,       \* collaborator calls made by the latest send, in order
    raised,           \* class and text markers of the error the latest send raised
    outcome,          \* what the transport answered to the send that ended the call
    result,           \* how the call ended: returned value or raised error
    body,             \* decoded JSON body of the response that ended the call
    caller,           \* the endpoint adapter in progress, its arguments and result
    feed              \* hashtag_feed in progress: its locals and its trace

vars == <<requests_count, request_timeout, public_headers, pc, args, iteration,
          sends, callLog, attemptLog, raised, outcome, result, body, caller, feed>>

\* the state above public_request: adapters and feature methods
upper == <<body, caller, feed>>
\* the state of public_request and of the session
lower == <<requests_count, request_timeout, public_headers, pc, args, iteration,
           sends, callLog, attemptLog, raised, outcome, result>>

NoArgs ==
    [data |-> NoneData, headers |-> NoneHeaders, return_json |-> FALSE,
     retries_count |-> 0, retries_timeout |-> 0]
NoResult ==
    [kind |-> "none", exc |-> "", value |-> "", markers |-> {},
     response |-> NoResponse]

NoRaise == [exc |-> "", markers |-> {}]

\* entries of the two logs
Ev(name) == [ev |-> name, t |-> 0]
Sleep(seconds) == [ev |-> "sleep", t |-> seconds]

\* --------------------------------------------------------- error classes
\* the classes of .exceptions that derive from ClientError
ClientErrors ==
    { "ClientError", "ClientConnectionError", "ClientNotFoundError",
      "ClientJSONDecodeError", "ClientForbiddenError", "ClientBadRequestError",
      "ClientGraphqlError", "ClientThrottledError", "ClientIncompleteReadError",
      "ClientLoginRequired", "GenericRequestError" }
IsClientError(exc) == exc \in ClientErrors

\* first except clause of public_request: errors that stop the retries
StopRetries == {"ClientLoginRequired", "ClientNotFoundError", "ClientBadRequestError"}
IsStopRetries_NoNotFound(exc) ==
    exc \in {"ClientLoginRequired", "ClientBadRequestError"}
IsStopRetries(exc) == exc \in StopRetries

IsSocksProxyFailure_TwoMarkers(exc, markers) ==
    /\ exc = "ClientConnectionError"
    /\ SOCKS \in markers
    /\ MAXRETRIES \in markers

\* the condition of the if inside "except ClientError"
IsSocksProxyFailure(exc, markers) ==
    /\ exc = "ClientConnectionError"
    /\ SOCKS \in markers
    /\ MAXRETRIES \in markers
    /\ FAILCONN \in markers

AttemptsRemain_Early(retries_count, i) == retries_count > i + 2

\* "if retries_count > iteration + 1"
AttemptsRemain(retries_count, i) == retries_count > i + 1

RetrySleep_None(retries_timeout) == <<>>

\* "time.sleep(retries_timeout)" before the next pass
RetrySleep(retries_timeout) == <<Sleep(retries_timeout)>>

\* "for iteration in range(retries_count)": is there a pass number i
InRange(retries_count, i) == i >= 0 /\ i < retries_count

RetriesCountOk_OffByOne(retries_count) == retries_count <= MaxRetriesCount + 1

\* the two assertions at the head of public_request
RetriesCountOk(retries_count) == retries_count <= MaxRetriesCount
RetriesTimeoutOk(retries_timeout) == retries_timeout <= MaxRetriesTimeout

\* ------------------------------------------------- _send_public_request
CountAfterSend_ClassAttribute(count) == 0 + 1

\* "self.requests_count += 1"
CountAfterSend(count) == count + 1

\* dict.update on the session headers
HeadersUpdate(old, new) ==
    { p \in old : \A q \in new : q[1] # p[1] } \cup new

\* "if headers:" - None and the empty mapping are both false
HeadersAfterSend(old, headers) ==
    IF headers.given /\ headers.map # {} THEN HeadersUpdate(old, headers.map) ELSE old

Throttle_None(timeout) == <<>>

\* "if self.request_timeout: time.sleep(self.request_timeout)"
Throttle(timeout) == IF timeout # 0 THEN <<Sleep(timeout)>> ELSE <<>>

\* "if data is not None" selects the POST branch
IsPost(data) == data # NoneData

IsIncompleteRead_OrEqual(resp) == resp.tell <= resp.contentLength

\* "if actual_length < expected_length"
IsIncompleteRead(resp) == resp.tell < resp.contentLength

\* response.raise_for_status() raises HTTPError for 4xx and 5xx
RaisesHTTPError(status) == status >= 400 /\ status < 600

HTTPErrorClass_No429(status) ==
    IF status = 403 THEN "ClientForbiddenError"
    ELSE IF status = 400 THEN "ClientBadRequestError"
    ELSE IF status = 404 THEN "ClientNotFoundError"
    ELSE "ClientError"

\* except requests.HTTPError: the class raised for a status
HTTPErrorClass(status) ==
    IF status = 403 THEN "ClientForbiddenError"
    ELSE IF status = 400 THEN "ClientBadRequestError"
    ELSE IF status = 429 THEN "ClientThrottledError"
    ELSE IF status = 404 THEN "ClientNotFoundError"
    ELSE "ClientError"

JSONErrorClass_NoLoginCheck(resp) == "ClientJSONDecodeError"

\* except JSONDecodeError: the class raised for a body that is not JSON
JSONErrorClass(resp) ==
    IF resp.login THEN "ClientLoginRequired" ELSE "ClientJSONDecodeError"

Raise(exc, resp, markers, log) ==
    [kind |-> "raise", exc |-> exc, value |-> "", markers |-> markers,
     response |-> resp, log |-> log]
Return(value, resp, log) ==
    [kind |-> "return", exc |-> "", value |-> value, markers |-> {},
     response |-> resp, log |-> log]

\* the same with response.json() tried before raise_for_status()
HandleResponse_JSONFirst(resp, return_json, log) ==
    IF resp.contentLength = NoContentLength
    THEN Raise("TypeError", NoResponse, {}, log)
    ELSE IF IsIncompleteRead(resp)
    THEN Raise("ClientIncompleteReadError", resp, {}, log)
    ELSE IF return_json /\ ~resp.jsonOk
    THEN Raise(JSONErrorClass(resp), resp, {}, log \o <<Ev("json")>>)
    ELSE IF RaisesHTTPError(resp.status)
    THEN Raise(HTTPErrorClass(resp.status), resp, {},
               log \o <<Ev("raise_for_status")>>)
    ELSE IF ~return_json
    THEN Return("text", resp, log \o <<Ev("raise_for_status"), Ev("text")>>)
    ELSE Return("json", resp, log \o <<Ev("raise_for_status"), Ev("json")>>)

\* The try block and its except clauses once a response has arrived.
HandleResponse(resp, return_json, log) ==
    IF resp.contentLength = NoContentLength
    THEN \* int(None)
         Raise("TypeError", NoResponse, {}, log)
    ELSE IF IsIncompleteRead(resp)
    THEN Raise("ClientIncompleteReadError", resp, {}, log)
    ELSE IF RaisesHTTPError(resp.status)
    THEN Raise(HTTPErrorClass(resp.status), resp, {},
               log \o <<Ev("raise_for_status")>>)
    ELSE IF ~return_json
    THEN Return("text", resp, log \o <<Ev("raise_for_status"), Ev("text")>>)
    ELSE IF resp.jsonOk
    THEN Return("json", resp, log \o <<Ev("raise_for_status"), Ev("json")>>)
    ELSE Raise(JSONErrorClass(resp), resp, {},
               log \o <<Ev("raise_for_status"), Ev("json")>>)

\* One _send_public_request after the counter and header updates: the
\* throttle sleep, the request and the translation of what came back.
\* o is what the transport does if a request is issued.
send_public_request(data, return_json, timeout, o) ==
    IF IsPost(data)
    THEN \* self.public.data: a requests.Session has no such attribute
         Raise("AttributeError", NoResponse, {}, Throttle(timeout))
    ELSE IF o.kind = "ConnectionError"
    THEN Raise("ClientConnectionError", NoResponse, o.markers,
               Throttle(timeout) \o <<Ev("GET")>>)
    ELSE IF o.kind = "ReadTimeout"
    THEN Raise("ReadTimeout", NoResponse, {}, Throttle(timeout) \o <<Ev("GET")>>)
    ELSE HandleResponse(o, return_json, Throttle(timeout) \o <<Ev("GET")>>)

\* what the latest send got from the transport (nothing if no request went out)
Answer(data, o) == IF IsPost(data) THEN NoResponse ELSE o

AsResult(r) ==
    [kind |-> r.kind, exc |-> r.exc, value |-> r.value, markers |-> r.markers,
     response |-> r.response]

\* ------------------------------------------- values above public_request
\* None, and the absence of a key in a decoded JSON object
None == "None"
\* truth value of an optional string argument
Truthy(v) == v \notin {None, ""}

\* A decoded JSON object, by the keys the adapters read: the GraphQL envelope
\* (status, message, data) and the legacy "a1" shape (graphql, error_type,
\* errors.error[0]).  NoBody also stands for the empty object.
NoBody ==
    [status |-> None, message |-> None, data |-> None,
     graphql |-> None, error_type |-> None, errors |-> None]

\* text of an error raised by an adapter, by the parts formatted into it
NoText == [first |-> None, message |-> None]
NoAdapterResult ==
    [kind |-> "none", exc |-> "", value |-> None, text |-> NoText,
     response |-> NoResponse, json |-> NoBody]
\* query parameters are sets of <<key, value>> pairs; the argument may be None
NoneParams == [given |-> FALSE, map |-> {}]
NoCaller ==
    [op |-> "none", phase |-> "idle", query_hash |-> None, query_id |-> None,
     params |-> NoneParams, sent |-> {}, result |-> NoAdapterResult]

\* hashtag_feed: no call in progress.  A cursor is a number, 0 for None.
NoFeed ==
    [pc |-> "idle", count |-> 0, sleep |-> 0, medias |-> <<>>, end_cursor |-> 0,
     log |-> <<>>, value |-> <<>>, exc |-> ""]

\* -------------------------------------------------------------- actions
Init ==
    /\ requests_count = 0
    /\ request_timeout \in RequestTimeouts
    /\ public_headers = DefaultHeaders
    /\ pc = "idle"
    /\ args = NoArgs
    /\ iteration = 0
    /\ sends = 0
    /\ callLog = <<>>
    /\ attemptLog = <<>>
    /\ raised = NoRaise
    /\ outcome = NoResponse
    /\ result = NoResult
    /\ body = NoBody
    /\ caller = NoCaller
    /\ feed = NoFeed

\* the most sends a call with arguments a can make
CallBound(a) ==
    IF a.retries_count \in 1..MaxRetriesCount THEN a.retries_count ELSE 0

\* public_request up to the for statement: the two assertions, and the loop
\* that an empty range(retries_count) never enters.
public_request_call(a) ==
    /\ pc = "idle"
    /\ \/ requests_count = 0
       \/ requests_count + CallBound(a) <= MaxRequests
    /\ args' = a
    /\ iteration' = 0
    /\ callLog' = <<>>
    /\ attemptLog' = <<>>
    /\ raised' = NoRaise
    /\ outcome' = NoResponse
    /\ IF ~RetriesCountOk(a.retries_count)
       THEN /\ pc' = "done"
            /\ result' = [NoResult EXCEPT !.kind = "raise", !.exc = "AssertionError",
                                          !.value = "Retries count is too high"]
       ELSE IF ~RetriesTimeoutOk(a.retries_timeout)
       THEN /\ pc' = "done"
            /\ result' = [NoResult EXCEPT !.kind = "raise", !.exc = "AssertionError",
                                          !.value = "Retries timeout is too high"]
       ELSE IF ~InRange(a.retries_count, 0)
       THEN /\ pc' = "done"
            /\ result' = [NoResult EXCEPT !.kind = "return", !.value = "None"]
       ELSE /\ pc' = "loop"
            /\ result' = NoResult
    /\ UNCHANGED <<requests_count, request_timeout, public_headers, sends>>

\* One pass through the body of the for loop.
public_request_iteration(o) ==
    /\ pc = "loop"
    /\ LET r == send_public_request(args.data, args.return_json, request_timeout, o)
           retry == /\ r.kind = "raise"
                    /\ ~IsStopRetries(r.exc)
                    /\ IsClientError(r.exc)
                    /\ ~IsSocksProxyFailure(r.exc, r.markers)
                    /\ AttemptsRemain(args.retries_count, iteration)
       IN /\ requests_count' = CountAfterSend(requests_count)
          /\ sends' = sends + 1
          /\ public_headers' = HeadersAfterSend(public_headers, args.headers)
          /\ attemptLog' = r.log
          /\ raised' = IF r.kind = "raise"
                       THEN [exc |-> r.exc, markers |-> r.markers] ELSE NoRaise
          /\ IF retry
             THEN /\ callLog' = callLog \o <<Ev("send")>> \o RetrySleep(args.retries_timeout)
                  /\ iteration' = iteration + 1
                  /\ outcome' = NoResponse
                  /\ IF InRange(args.retries_count, iteration + 1)
                     THEN /\ pc' = "loop"
                          /\ result' = NoResult
                     ELSE \* the loop ends and the function falls off its end
                          /\ pc' = "done"
                          /\ result' = [NoResult EXCEPT !.kind = "return", !.value = "None"]
             ELSE /\ callLog' = callLog \o <<Ev("send")>>
                  /\ iteration' = iteration
                  /\ pc' = "done"
                  /\ outcome' = Answer(args.data, o)
                  /\ result' = AsResult(r)
    /\ UNCHANGED <<request_timeout, args>>

\* the caller takes the returned value or the raised error
public_request_exit ==
    /\ pc = "done"
    /\ pc' = "idle"
    /\ args' = NoArgs
    /\ iteration' = 0
    /\ callLog' = <<>>
    /\ attemptLog' = <<>>
    /\ raised' = NoRaise
    /\ outcome' = NoResponse
    /\ result' = NoResult
    /\ UNCHANGED <<requests_count, request_timeout, public_headers, sends>>

ArgSets ==
    [data : DataArgs, headers : HeaderArgs, return_json : BOOLEAN,
     retries_count : RetriesCounts, retries_timeout : RetriesTimeouts]

Next ==
    \/ \E a \in ArgSets : public_request_call(a) /\ UNCHANGED upper
    \/ \E o \in Outcomes : public_request_iteration(o) /\ UNCHANGED upper
    \/ public_request_exit /\ UNCHANGED upper

Spec == Init /\ [][Next]_vars

\* ==================================================== endpoint adapters
\* defaults of public_request: retries_count=10, retries_timeout=10
DefaultRetriesCount == 10
DefaultRetriesTimeout == 10

\* what an adapter hands to public_request: JSON expected, default retries
DispatchArgs(data, headers) ==
    [data |-> data, headers |-> headers, return_json |-> TRUE,
     retries_count |-> DefaultRetriesCount,
     retries_timeout |-> DefaultRetriesTimeout]

\* inputs of the adapters
AdapterData == {NoneData, "payload"}
QueryHashes == {None, "f92f56d4"}
QueryIds == {None, "17888483320059182"}
ParamArgs == { NoneParams, [given |-> TRUE, map |-> {<<"max_id", "QVFE">>}] }

\* transport answers explored under the adapters: every kind of failure, and
\* responses received exactly as long as declared
AdapterOutcomes ==
    { o \in Outcomes : o.kind = "response" => o.contentLength = o.tell }

\* decoded bodies of the GraphQL endpoint and of the legacy endpoint
GraphqlBodies ==
    { [NoBody EXCEPT !.status = st, !.message = m, !.data = d] :
         st \in {None, "ok", "fail"}, m \in {None, "rate limited"},
         d \in {None, "data"} }
A1Bodies ==
    { [NoBody EXCEPT !.graphql = g, !.error_type = t, !.errors = e] :
         g \in {None, "graphql"},
         t \in {None, "generic_request_error", "other_error"},
         e \in {None, "first error"} }
Bodies(op) == IF op = "graphql" THEN GraphqlBodies ELSE A1Bodies

\* "if params: params.update(extra) else: params = extra"
MergeParams(params, extra) ==
    IF params.given /\ params.map # {} THEN HeadersUpdate(params.map, extra) ELSE extra

\* ---------------------------------------------- public_graphql_request
\* "assert query_id or query_hash"
GraphqlAssertOk(query_hash, query_id) == Truthy(query_id) \/ Truthy(query_hash)

\* default_params: variables, and each of query_id / query_hash that is given
GraphqlDefaultParams(query_hash, query_id) ==
    {<<"variables", "{}">>}
       \cup (IF Truthy(query_id) THEN {<<"query_id", query_id>>} ELSE {})
       \cup (IF Truthy(query_hash) THEN {<<"query_hash", query_hash>>} ELSE {})

GraphqlStatusOk_NotFail(b) == b.status # "fail"

\* 'body_json.get("status", None) != "ok"' negated
GraphqlStatusOk(b) == b.status = "ok"

GraphqlBadRequestMessage_Unread(resp, b) == None

\* the except ClientBadRequestError clause: message of the decoded error
\* body, None when decoding fails (the JSONDecodeError is passed over)
GraphqlBadRequestMessage(resp, b) == IF resp.jsonOk THEN b.message ELSE None

AdapterRaise(exc, text, resp, json) ==
    [kind |-> "raise", exc |-> exc, value |-> None, text |-> text,
     response |-> resp, json |-> json]
AdapterReturn(value) ==
    [kind |-> "return", exc |-> "", value |-> value, text |-> NoText,
     response |-> NoResponse, json |-> NoBody]
\* an error of public_request that the adapter does not catch
Propagate(r) == AdapterRaise(r.exc, NoText, r.response, NoBody)

\* public_graphql_request after public_request has ended with r; b is the
\* decoded body of the response r carries
GraphqlResult(r, b) ==
    IF r.kind = "return"
    THEN IF ~GraphqlStatusOk(b)
         THEN AdapterRaise("ClientGraphqlError",
                           [first |-> b.status, message |-> b.message], NoResponse, b)
         ELSE IF b.data = None
         THEN AdapterRaise("KeyError", NoText, NoResponse, NoBody)
         ELSE AdapterReturn(b.data)
    ELSE IF r.exc = "ClientBadRequestError"
    THEN AdapterRaise("ClientGraphqlError",
                      [first |-> r.exc, message |-> GraphqlBadRequestMessage(r.response, b)],
                      r.response, NoBody)
    ELSE Propagate(r)

public_graphql_request_call(query_hash, query_id, data, params) ==
    /\ pc = "idle"
    /\ caller.op = "none"
    /\ feed.pc = "idle"
    /\ IF ~GraphqlAssertOk(query_hash, query_id)
       THEN /\ caller' = [NoCaller EXCEPT
                             !.op = "graphql", !.phase = "done",
                             !.query_hash = query_hash, !.query_id = query_id,
                             !.params = params,
                             !.result = AdapterRaise("AssertionError", NoText,
                                                     NoResponse, NoBody)]
            /\ UNCHANGED lower
       ELSE /\ caller' = [NoCaller EXCEPT
                             !.op = "graphql", !.phase = "dispatch",
                             !.query_hash = query_hash, !.query_id = query_id,
                             !.params = params,
                             !.sent = MergeParams(params,
                                         GraphqlDefaultParams(query_hash, query_id))]
            /\ public_request_call(DispatchArgs(data, NoneHeaders))
    /\ UNCHANGED <<body, feed>>

public_graphql_request_return ==
    /\ caller.op = "graphql"
    /\ caller.phase = "dispatch"
    /\ pc = "done"
    /\ caller' = [caller EXCEPT !.phase = "done", !.result = GraphqlResult(result, body)]
    /\ UNCHANGED lower
    /\ UNCHANGED <<body, feed>>

\* --------------------------------------------------- public_a1_request
\* the fixed query parameter
A1Param == {<<"__a", "1">>}

A1IsGenericError_AnyType(error_type) == error_type # None

\* 'if error_type == "generic_request_error"'
A1IsGenericError(error_type) == error_type = "generic_request_error"

\* json_value(response, "errors", "error", 0, default=error_type)
JsonValue(b, default) == IF b.errors # None THEN b.errors ELSE default

\* public_a1_request after public_request has ended with r
A1Result(r, b) ==
    IF r.kind = "return"
    THEN IF b.graphql # None
         THEN AdapterReturn(b.graphql)
         ELSE IF A1IsGenericError(b.error_type)
         THEN AdapterRaise("GenericRequestError",
                           [first |-> JsonValue(b, b.error_type), message |-> None],
                           NoResponse, b)
         ELSE AdapterRaise("KeyError", NoText, NoResponse, NoBody)
    ELSE Propagate(r)

public_a1_request_call(data, params) ==
    /\ pc = "idle"
    /\ caller.op = "none"
    /\ feed.pc = "idle"
    /\ caller' = [NoCaller EXCEPT !.op = "a1", !.phase = "dispatch",
                                  !.params = params,
                                  !.sent = MergeParams(params, A1Param)]
    /\ public_request_call(DispatchArgs(data, NoneHeaders))
    /\ UNCHANGED <<body, feed>>

public_a1_request_return ==
    /\ caller.op = "a1"
    /\ caller.phase = "dispatch"
    /\ pc = "done"
    /\ caller' = [caller EXCEPT !.phase = "done", !.result = A1Result(result, body)]
    /\ UNCHANGED lower
    /\ UNCHANGED <<body, feed>>

\* one pass of the retry loop under an adapter; b is the decoded body of the
\* response when it has one
adapter_iteration(o, b) ==
    /\ caller.phase = "dispatch"
    /\ public_request_iteration(o)
    /\ body' = IF pc' = "done" /\ outcome'.kind = "response" /\ outcome'.jsonOk
               THEN b ELSE NoBody
    /\ UNCHANGED <<caller, feed>>

\* the caller of the adapter takes its result
adapter_exit ==
    /\ caller.phase = "done"
    /\ caller' = NoCaller
    /\ body' = NoBody
    /\ IF pc = "done" THEN public_request_exit ELSE UNCHANGED lower
    /\ UNCHANGED feed

NextAdapters ==
    \/ \E qh \in QueryHashes, qid \in QueryIds, d \in AdapterData, p \in ParamArgs :
          public_graphql_request_call(qh, qid, d, p)
    \/ public_graphql_request_return
    \/ \E d \in AdapterData, p \in ParamArgs : public_a1_request_call(d, p)
    \/ public_a1_request_return
    \/ \E o \in AdapterOutcomes : \E b \in Bodies(caller.op) : adapter_iteration(o, b)
    \/ adapter_exit

SpecAdapters == Init /\ [][NextAdapters]_vars

\* ========================================================= hashtag_feed
\* hashtag_feed, the page fetch hashtag_info taken by its result: the
\* edge_hashtag_to_media subtree of a page, or the error that comes out of
\* public_a1_request; a fetch goes through public_request and costs sends.
\* default of the sleep argument
DefaultFeedSleep == 2
FeedCounts == 0..MaxCount
FeedSleeps == {0, DefaultFeedSleep}
\* a page: its number of edges and its page_info (end_cursor 0: None or empty)
Pages == [edges : 0..MaxPageEdges, has_next_page : BOOLEAN, end_cursor : 0..2]
\* errors a page fetch can end with
FetchErrors == {"ClientNotFoundError", "ClientThrottledError", "KeyError"}

\* entries of the trace of hashtag_feed
FeedFetch(max_id, pg) ==
    [ev |-> "fetch", t |-> max_id, edges |-> pg.edges,
     has_next_page |-> pg.has_next_page, end_cursor |-> pg.end_cursor]
FeedSleep(seconds) ==
    [ev |-> "sleep", t |-> seconds, edges |-> 0, has_next_page |-> FALSE,
     end_cursor |-> 0]

\* hashtag_info: 'params = {"max_id": max_id} if max_id else None', the
\* cursor the request carries (0: no max_id parameter)
MaxIdParam(max_id) == IF max_id # 0 THEN max_id ELSE 0

\* the edges of the k-th page fetched, in order
PageEdges(k, n) == [j \in 1..n |-> <<k, j>>]

FeedStop_Strict(has_next_page, collected, count) ==
    ~has_next_page \/ collected > count

\* the condition of the break
FeedStop(has_next_page, collected, count) ==
    ~has_next_page \/ collected >= count

\* medias[:count]
Slice(seq, count) ==
    IF count >= 0
    THEN SubSeq(seq, 1, IF count < Len(seq) THEN count ELSE Len(seq))
    ELSE SubSeq(seq, 1, IF Len(seq) + count > 0 THEN Len(seq) + count ELSE 0)

\* number of pages fetched so far by the call
Fetched(log) == Cardinality({ i \in 1..Len(log) : log[i].ev = "fetch" })

hashtag_feed_call(count, sleep) ==
    /\ feed.pc = "idle"
    /\ pc = "idle"
    /\ caller.op = "none"
    /\ requests_count <= MaxRequests
    /\ feed' = [NoFeed EXCEPT !.pc = "loop", !.count = count, !.sleep = sleep]
    /\ UNCHANGED lower
    /\ UNCHANGED <<body, caller>>

\* one pass of the while loop whose hashtag_info returns page pg after n sends
hashtag_feed_page(pg, n) ==
    /\ feed.pc = "loop"
    /\ Fetched(feed.log) < MaxPages
    /\ LET k == Fetched(feed.log) + 1
           medias == feed.medias \o PageEdges(k, pg.edges)
           log == feed.log \o <<FeedFetch(MaxIdParam(feed.end_cursor), pg)>>
       IN IF FeedStop(pg.has_next_page, Len(medias), feed.count)
          THEN feed' = [feed EXCEPT !.pc = "done", !.medias = medias,
                                    !.end_cursor = pg.end_cursor, !.log = log,
                                    !.value = Slice(medias, feed.count)]
          ELSE feed' = [feed EXCEPT !.medias = medias,
                                    !.end_cursor = pg.end_cursor,
                                    !.log = log \o <<FeedSleep(feed.sleep)>>]
    /\ requests_count' = requests_count + n
    /\ sends' = sends + n
    /\ UNCHANGED <<request_timeout, public_headers, pc, args, iteration,
                   callLog, attemptLog, raised, outcome, result>>
    /\ UNCHANGED <<body, caller>>

\* one pass of the while loop whose hashtag_info raises e after n sends
hashtag_feed_error(e, n) ==
    /\ feed.pc = "loop"
    /\ Fetched(feed.log) < MaxPages
    /\ feed' = [feed EXCEPT !.pc = "done", !.exc = e]
    /\ requests_count' = requests_count + n
    /\ sends' = sends + n
    /\ UNCHANGED <<request_timeout, public_headers, pc, args, iteration,
                   callLog, attemptLog, raised, outcome, result>>
    /\ UNCHANGED <<body, caller>>

\* the caller takes the list or the error
hashtag_feed_exit ==
    /\ feed.pc = "done"
    /\ feed' = NoFeed
    /\ UNCHANGED lower
    /\ UNCHANGED <<body, caller>>

NextFeed ==
    \/ \E c \in FeedCounts, sl \in FeedSleeps : hashtag_feed_call(c, sl)
    \/ \E pg \in Pages, n \in 1..MaxFetchSends : hashtag_feed_page(pg, n)
    \/ \E e \in FetchErrors, n \in 1..MaxFetchSends : hashtag_feed_error(e, n)
    \/ hashtag_feed_exit

SpecFeed == Init /\ [][NextFeed]_vars

\* ======================================================== properties
\* the retry trace of a call that made k sends: a sleep of t between each
\* pair of consecutive sends and none after the last
RetryPattern(k, t) ==
    [i \in 1..(2 * k - 1) |-> IF i % 2 = 1 THEN Ev("send") ELSE Sleep(t)]

\* a ClientError that public_request neither stops on nor treats as a broken
\* SOCKS proxy
Transient(exc, markers) ==
    /\ exc \in {"ClientError", "ClientConnectionError", "ClientJSONDecodeError",
                "ClientForbiddenError", "ClientThrottledError",
                "ClientIncompleteReadError"}
    /\ ~(exc = "ClientConnectionError" /\ Markers \subseteq markers)

\* C1: a send that raises ClientBadRequestError, ClientNotFoundError or
\* ClientLoginRequired ends the call at once with that same error: the trace
\* of the call ends with that send, no retry sleep follows it, and when it was
\* the first attempt the call made exactly one send, whatever retries_count.
C1_StopRetriesPropagate ==
    raised.exc \in {"ClientBadRequestError", "ClientNotFoundError", "ClientLoginRequired"}
    => /\ pc = "done"
       /\ args.retries_count \in 1..10
       /\ result.kind = "raise"
       /\ result.exc = raised.exc
       /\ result.response = outcome
       /\ callLog = RetryPattern(iteration + 1, args.retries_timeout)
       /\ (iteration = 0 => callLog = <<Ev("send")>>)

C1_Witness ==
    /\ pc = "done"
    /\ raised.exc = "ClientNotFoundError"
    /\ iteration = 0
    /\ args.retries_count = 10
    /\ callLog = <<Ev("send")>>

\* C2: a call that returns the result of its k-th send, the k-1 earlier sends
\* having raised transient errors, has k <= retries_count, returns what that
\* k-th send produced, and its trace is k sends with exactly one sleep of
\* retries_timeout between consecutive sends; while the loop runs, every
\* finished pass raised a transient error and was followed by one such sleep.
C2_SuccessAfterTransient ==
    /\ (pc = "done" /\ result.kind = "return" /\ callLog # <<>>)
       => /\ iteration + 1 <= args.retries_count
          /\ args.retries_count <= 10
          /\ callLog = RetryPattern(iteration + 1, args.retries_timeout)
          /\ outcome.kind = "response"
          /\ result.response = outcome
          /\ result.value = (IF args.return_json THEN "json" ELSE "text")
    /\ (pc = "loop" /\ iteration > 0)
       => /\ Transient(raised.exc, raised.markers)
          /\ callLog = RetryPattern(iteration, args.retries_timeout)
                          \o <<Sleep(args.retries_timeout)>>

C2_Witness ==
    /\ pc = "done"
    /\ result.kind = "return"
    /\ iteration = 2
    /\ args.retries_count = 3
    /\ Len(callLog) = 5

\* C3: a call that ends by raising a transient ClientError made exactly
\* retries_count sends and retries_count - 1 retry sleeps, none after the
\* last send, and raises the error of that last send.
C3_TransientExhausted ==
    (pc = "done" /\ result.kind = "raise" /\ Transient(result.exc, result.markers))
    => /\ args.retries_count \in 1..10
       /\ iteration + 1 = args.retries_count
       /\ callLog = RetryPattern(args.retries_count, args.retries_timeout)
       /\ result.exc = raised.exc
       /\ result.markers = raised.markers
       /\ result.response = (IF outcome.kind = "response" THEN outcome ELSE NoResponse)

C3_Witness ==
    /\ pc = "done"
    /\ result.kind = "raise"
    /\ result.exc = "ClientThrottledError"
    /\ args.retries_count = 10
    /\ Len(callLog) = 19

\* C4: a call with retries_count > 10 or retries_timeout > 600 ends with an
\* AssertionError in its first step: nothing is sent, nothing sleeps and the
\* request counter keeps its value.
C4_AssertBeforeSend ==
    [][ (pc = "idle" /\ pc' # "idle"
           /\ (args'.retries_count > 10 \/ args'.retries_timeout > 600))
        => /\ pc' = "done"
           /\ result'.kind = "raise"
           /\ result'.exc = "AssertionError"
           /\ callLog' = <<>>
           /\ attemptLog' = <<>>
           /\ requests_count' = requests_count
           /\ sends' = sends ]_vars

C4_Witness ==
    /\ pc = "done"
    /\ args.retries_count = 11
    /\ args.retries_timeout <= 600
    /\ result.exc = "AssertionError"
    /\ requests_count > 0

\* C5: a ClientConnectionError whose text has all three markers ends the call
\* at once, with no sleep after it, whatever attempts remain; one that lacks a
\* marker is followed by a retry sleep when attempts remain and ends the call
\* only as its last attempt.
C5_SocksProxyFailure ==
    raised.exc = "ClientConnectionError"
    => IF Markers \subseteq raised.markers
       THEN /\ pc = "done"
            /\ result.kind = "raise"
            /\ result.exc = "ClientConnectionError"
            /\ result.markers = raised.markers
            /\ callLog = RetryPattern(iteration + 1, args.retries_timeout)
       ELSE \/ /\ pc = "loop"
               /\ iteration < args.retries_count
               /\ callLog = RetryPattern(iteration, args.retries_timeout)
                               \o <<Sleep(args.retries_timeout)>>
            \/ /\ pc = "done"
               /\ iteration + 1 = args.retries_count
               /\ result.kind = "raise"
               /\ result.exc = "ClientConnectionError"
               /\ result.markers = raised.markers

C5_Witness ==
    /\ pc = "done"
    /\ raised.exc = "ClientConnectionError"
    /\ Markers \subseteq raised.markers
    /\ iteration = 1
    /\ args.retries_count = 10

\* a response that declares a Content-Length and was received in full
Complete(resp) ==
    /\ resp.kind = "response"
    /\ resp.contentLength # NoContentLength
    /\ resp.tell >= resp.contentLength

\* C6: the request counter always equals the number of single-attempt sends
\* made since construction; a step either leaves both alone or is one send
\* that adds exactly one to each, so the counter never decreases or resets.
C6_CounterCountsSends ==
    /\ [](requests_count = sends)
    /\ [][ \/ (requests_count' = requests_count /\ callLog' \in {callLog, <<>>})
           \/ /\ requests_count' = requests_count + 1
              /\ Len(callLog') > Len(callLog)
              /\ callLog'[Len(callLog) + 1] = Ev("send") ]_vars

C6_Witness ==
    /\ pc = "loop"
    /\ requests_count = 3
    /\ iteration = 1
    /\ raised.exc = "ClientForbiddenError"

\* C7: a response whose declared Content-Length exceeds the bytes received
\* makes the send raise ClientIncompleteReadError carrying that response,
\* whatever its status and return_json, and a response received in full never
\* does; a send that raised it called neither raise_for_status nor json.
C7_IncompleteRead ==
    /\ (pc = "done" /\ outcome.kind = "response"
          /\ outcome.contentLength # NoContentLength)
       => /\ (outcome.tell < outcome.contentLength)
                <=> (raised.exc = "ClientIncompleteReadError")
          /\ (outcome.tell < outcome.contentLength)
                => /\ result.kind = "raise"
                   /\ result.exc = "ClientIncompleteReadError"
                   /\ result.response = outcome
    /\ raised.exc = "ClientIncompleteReadError"
       => \A i \in 1..Len(attemptLog) :
             attemptLog[i].ev \notin {"raise_for_status", "json", "text"}

C7_Witness ==
    /\ pc = "done"
    /\ outcome.contentLength = 2
    /\ outcome.tell = 1
    /\ outcome.status = 404
    /\ args.return_json
    /\ result.exc = "ClientIncompleteReadError"

C9_JSONDecodeFailure ==
    /\ (pc = "done" /\ Complete(outcome) /\ outcome.status \in 200..299)
       => IF ~args.return_json
          THEN /\ result.kind = "return"
               /\ result.value = "text"
               /\ result.response = outcome
          ELSE IF outcome.jsonOk
          THEN result.kind = "return" /\ result.value = "json"
          ELSE /\ result.kind = "raise"
               /\ result.response = outcome
               /\ result.exc = (IF outcome.login THEN "ClientLoginRequired"
                                                 ELSE "ClientJSONDecodeError")
    /\ raised.exc = "ClientLoginRequired"
       => /\ pc = "done"
          /\ result.exc = "ClientLoginRequired"
          /\ callLog = RetryPattern(iteration + 1, args.retries_timeout)
    /\ raised.exc = "ClientJSONDecodeError"
       => \/ /\ pc = "loop"
             /\ callLog = RetryPattern(iteration, args.retries_timeout)
                             \o <<Sleep(args.retries_timeout)>>
          \/ /\ pc = "done"
             /\ iteration + 1 = args.retries_count
             /\ result.exc = "ClientJSONDecodeError"
    /\ ~args.return_json
       => raised.exc \notin {"ClientLoginRequired", "ClientJSONDecodeError"}

C9_Witness ==
    /\ pc = "done"
    /\ Complete(outcome)
    /\ outcome.status = 200
    /\ outcome.login
    /\ result.exc = "ClientLoginRequired"
    /\ iteration = 1
    /\ args.retries_count = 3

\* C10 as stated: every send issues exactly one request on the session, a
\* POST when data is not None and a GET when it is None.
C10_OneRequestPerSend ==
    callLog # <<>>
    => LET requests == { i \in 1..Len(attemptLog) : attemptLog[i].ev \in {"GET", "POST"} }
       IN /\ Cardinality(requests) = 1
          /\ \A i \in requests :
                attemptLog[i].ev = (IF args.data # NoneData THEN "POST" ELSE "GET")

\* C16 as stated: a request issued without per-call headers is sent with
\* exactly the default headers set at construction, whatever calls came
\* before it.
C16_DefaultHeadersKept ==
    (callLog # <<>> /\ ~args.headers.given) => public_headers = DefaultHeaders

\* the typed error kinds of the taxonomy
TypedKinds ==
    { "ClientError", "ClientConnectionError", "ClientNotFoundError",
      "ClientJSONDecodeError", "ClientForbiddenError", "ClientBadRequestError",
      "ClientGraphqlError", "ClientThrottledError", "ClientIncompleteReadError",
      "ClientLoginRequired", "GenericRequestError" }

\* C17 as stated: a call that passed the two assertions and ends by raising
\* raises one of the typed kinds, and a response without Content-Length is
\* handled as a complete one (never a failure by itself).
C17_TypedFailures ==
    (pc = "done" /\ callLog # <<>>)
    => /\ result.kind = "raise" => result.exc \in TypedKinds
       /\ (outcome.kind = "response" /\ outcome.contentLength = NoContentLength
             /\ outcome.status \in 200..299 /\ ~args.return_json)
          => result.kind = "return"

\* the class the except clause for HTTPError gives a 4xx/5xx status
StatusKind(status) ==
    CASE status = 400 -> "ClientBadRequestError"
      [] status = 403 -> "ClientForbiddenError"
      [] status = 429 -> "ClientThrottledError"
      [] status = 404 -> "ClientNotFoundError"
      [] OTHER -> "ClientError"

\* the class raised for a body that is not JSON
DecodeKind(resp) ==
    IF resp.login THEN "ClientLoginRequired" ELSE "ClientJSONDecodeError"

\* C18 as stated: for a response with a declared Content-Length the send
\* raises by the first applicable of: incomplete read, JSON-decode failure
\* (with return_json), HTTP status.
C18_Original ==
    (pc = "done" /\ outcome.kind = "response"
        /\ outcome.contentLength # NoContentLength)
    => result.exc =
          (IF outcome.tell < outcome.contentLength THEN "ClientIncompleteReadError"
           ELSE IF args.return_json /\ ~outcome.jsonOk THEN DecodeKind(outcome)
           ELSE IF outcome.status \in 400..599 THEN StatusKind(outcome.status)
           ELSE "")

\* C18 amended: for a response with a declared Content-Length the send raises
\* by the first applicable of: incomplete read, HTTP status translation of a
\* 4xx/5xx status, JSON-decode failure (with return_json); so a complete
\* 4xx/5xx response whose body is not JSON raises its status error, and a
\* truncated 400 or 404 raises ClientIncompleteReadError.  A connection
\* failure comes without a response and raises ClientConnectionError.
C18_TranslationOrder ==
    /\ (pc = "done" /\ outcome.kind = "response"
          /\ outcome.contentLength # NoContentLength)
       => result.exc =
             (IF outcome.tell < outcome.contentLength THEN "ClientIncompleteReadError"
              ELSE IF outcome.status \in 400..599 THEN StatusKind(outcome.status)
              ELSE IF args.return_json /\ ~outcome.jsonOk THEN DecodeKind(outcome)
              ELSE "")
    /\ (pc = "done" /\ outcome.kind = "ConnectionError")
       => result.exc = "ClientConnectionError"

C18_Witness ==
    /\ pc = "done"
    /\ Complete(outcome)
    /\ outcome.status = 400
    /\ args.return_json
    /\ ~outcome.jsonOk
    /\ outcome.login
    /\ result.exc = "ClientBadRequestError"

\* C19: every send, first attempt or retry, sleeps request_timeout exactly
\* once when it is non-zero, before its request is issued, and does not sleep
\* when it is zero; with the retry sleeps of the call this gives the order
\* throttle, request, (retry sleep, throttle, request)*: a call that has made
\* k sends has slept k throttles and k-1 retry sleeps when it ends, k when
\* it goes on.
C19_ThrottleEveryAttempt ==
    callLog # <<>>
    => LET sleepsAt == { i \in 1..Len(attemptLog) : attemptLog[i].ev = "sleep" }
           requestsAt == { i \in 1..Len(attemptLog) : attemptLog[i].ev \in {"GET", "POST"} }
           k == IF pc = "loop" THEN iteration ELSE iteration + 1
       IN /\ request_timeout # 0
             => /\ sleepsAt = {1}
                /\ attemptLog[1] = Sleep(request_timeout)
                /\ \A i \in requestsAt : i > 1
          /\ request_timeout = 0 => sleepsAt = {}
          /\ callLog = (IF pc = "loop"
                        THEN RetryPattern(k, args.retries_timeout)
                                \o <<Sleep(args.retries_timeout)>>
                        ELSE RetryPattern(k, args.retries_timeout))

C19_Witness ==
    /\ pc = "loop"
    /\ iteration = 2
    /\ request_timeout = 1
    /\ args.retries_timeout = 600
    /\ attemptLog[1] = Sleep(1)
    /\ Len(attemptLog) >= 2
    /\ attemptLog[2] = Ev("GET")

\* C20 as stated: a call that passed the two assertions and returns normally
\* returns the value of a send of that call that succeeded.
C20_ReturnsOnlyAfterSuccess ==
    (pc = "done" /\ result.kind = "return")
    => /\ callLog # <<>>
       /\ outcome.kind = "response"
       /\ result.response = outcome
       /\ result.value \in {"json", "text"}

\* C11 as stated: a public_graphql_request call given both query_hash and
\* query_id, or neither, faults before anything is dispatched; a call given
\* exactly one is dispatched with that key among the query parameters.
C11_ExactlyOneQueryKey ==
    caller.op = "graphql"
    => LET hasHash == caller.query_hash # None
           hasId == caller.query_id # None
       IN IF hasHash = hasId
          THEN /\ caller.phase = "done"
               /\ caller.result.exc = "AssertionError"
               /\ pc = "idle"
               /\ callLog = <<>>
               /\ attemptLog = <<>>
          ELSE /\ caller.result.exc # "AssertionError"
               /\ args.return_json
               /\ hasHash => <<"query_hash", caller.query_hash>> \in caller.sent
               /\ hasId => <<"query_id", caller.query_id>> \in caller.sent

\* C12: when public_request returns a decoded envelope, public_graphql_request
\* returns only if the status is "ok", and then the data field; with status
\* "ok" and a data field it returns that field; with any other status, a
\* missing one included, it raises ClientGraphqlError whose text is formatted
\* from the envelope's status and message.
C12_GraphqlEnvelope ==
    (caller.op = "graphql" /\ caller.phase = "done" /\ result.kind = "return")
    => /\ caller.result.kind = "return"
          => (body.status = "ok" /\ caller.result.value = body.data)
       /\ (body.status = "ok" /\ body.data # None)
          => (caller.result.kind = "return" /\ caller.result.value = body.data)
       /\ body.status # "ok"
          => /\ caller.result.kind = "raise"
             /\ caller.result.exc = "ClientGraphqlError"
             /\ caller.result.text = [first |-> body.status, message |-> body.message]
             /\ caller.result.json = body

C12_Witness ==
    /\ caller.op = "graphql"
    /\ caller.phase = "done"
    /\ result.kind = "return"
    /\ body.status = "fail"
    /\ body.message = "rate limited"
    /\ caller.result.exc = "ClientGraphqlError"

\* C13 as stated: a ClientBadRequestError of public_request leaves
\* public_graphql_request as ClientGraphqlError with the original response and
\* a text made of the original error and the message of the decoded error
\* body (None when the body does not decode), and exactly one send was made.
C13_Original ==
    (caller.op = "graphql" /\ caller.phase = "done"
        /\ result.exc = "ClientBadRequestError")
    => /\ caller.result.kind = "raise"
       /\ caller.result.exc = "ClientGraphqlError"
       /\ caller.result.response = result.response
       /\ caller.result.text.first = "ClientBadRequestError"
       /\ caller.result.text.message = (IF outcome.jsonOk THEN body.message ELSE None)
       /\ callLog = <<Ev("send")>>

\* C13 amended: as above, but the send that raised ClientBadRequestError is
\* the last send of the call, not always the only one: it is the only one
\* when the first attempt raised it, and after k-1 transient failures it is
\* the k-th.
C13_BadRequestRewrapped ==
    (caller.op = "graphql" /\ caller.phase = "done"
        /\ result.exc = "ClientBadRequestError")
    => /\ caller.result.kind = "raise"
       /\ caller.result.exc = "ClientGraphqlError"
       /\ caller.result.response = result.response
       /\ caller.result.response = outcome
       /\ caller.result.text.first = "ClientBadRequestError"
       /\ caller.result.text.message = (IF outcome.jsonOk THEN body.message ELSE None)
       /\ raised.exc = "ClientBadRequestError"
       /\ callLog = RetryPattern(iteration + 1, 10)
       /\ iteration = 0 => callLog = <<Ev("send")>>

C13_Witness ==
    /\ caller.op = "graphql"
    /\ caller.phase = "done"
    /\ result.exc = "ClientBadRequestError"
    /\ outcome.jsonOk
    /\ body.message = "rate limited"
    /\ caller.result.exc = "ClientGraphqlError"
    /\ caller.result.text.message = "rate limited"
    /\ iteration = 1

\* C14: public_a1_request dispatches with __a=1 merged into the caller's
\* parameters and with JSON expected; when public_request returns a decoded
\* response it returns the graphql field if there is one, raises
\* GenericRequestError carrying errors.error[0] (or the error_type string
\* when that path is absent) if there is none and error_type is
\* generic_request_error, and re-raises the KeyError otherwise.
C14_A1Classification ==
    caller.op = "a1"
    => /\ caller.sent = { q \in caller.params.map : q[1] # "__a" } \cup {<<"__a", "1">>}
       /\ args.return_json
       /\ (caller.phase = "done" /\ result.kind = "return")
          => IF body.graphql # None
             THEN caller.result.kind = "return" /\ caller.result.value = body.graphql
             ELSE IF body.error_type = "generic_request_error"
             THEN /\ caller.result.kind = "raise"
                  /\ caller.result.exc = "GenericRequestError"
                  /\ caller.result.text.first =
                        (IF body.errors # None THEN body.errors
                                               ELSE "generic_request_error")
             ELSE /\ caller.result.kind = "raise"
                  /\ caller.result.exc = "KeyError"

C14_Witness ==
    /\ caller.op = "a1"
    /\ caller.phase = "done"
    /\ caller.params.given
    /\ result.kind = "return"
    /\ body.graphql = None
    /\ body.error_type = "generic_request_error"
    /\ body.errors = None
    /\ caller.result.exc = "GenericRequestError"
    /\ caller.result.text.first = "generic_request_error"

\* C15: hashtag_feed fetches pages in cursor order (the first without a
\* cursor, each next one with the end_cursor the page before returned), goes
\* on exactly while the page just fetched has a next page and fewer than
\* count edges are collected, sleeps `sleep` once between consecutive fetches
\* and not after the last, and returns the first count collected edges in
\* fetch order: exactly count of them when at least count were collected.
C15_HashtagFeed ==
    (feed.pc \in {"loop", "done"} /\ feed.exc = "")
    => LET k == Fetched(feed.log)
           page(i) == feed.log[2 * i - 1]
           upTo(i) == Cardinality({ j \in 1..Len(feed.medias) : feed.medias[j][1] <= i })
       IN /\ Len(feed.log) = (IF feed.pc = "done" THEN 2 * k - 1 ELSE 2 * k)
          /\ \A i \in 1..Len(feed.log) :
                IF i % 2 = 1 THEN feed.log[i].ev = "fetch"
                ELSE feed.log[i].ev = "sleep" /\ feed.log[i].t = feed.sleep
          /\ k >= 1 => page(1).t = 0
          /\ \A i \in 1..(k - 1) :
                /\ page(i + 1).t = page(i).end_cursor
                /\ page(i).has_next_page
                /\ upTo(i) < feed.count
          /\ \A i \in 1..k :
                Cardinality({ j \in 1..Len(feed.medias) : feed.medias[j][1] = i })
                   = page(i).edges
          /\ \A a, b \in 1..Len(feed.medias) :
                a < b => \/ feed.medias[a][1] < feed.medias[b][1]
                         \/ /\ feed.medias[a][1] = feed.medias[b][1]
                            /\ feed.medias[a][2] < feed.medias[b][2]
          /\ (feed.pc = "loop" /\ k >= 1)
             => (page(k).has_next_page /\ upTo(k) < feed.count)
          /\ feed.pc = "done"
             => /\ k >= 1
                /\ ~page(k).has_next_page \/ upTo(k) >= feed.count
                /\ Len(feed.value) =
                      (IF Len(feed.medias) >= feed.count THEN feed.count
                                                         ELSE Len(feed.medias))
                /\ \A j \in 1..Len(feed.value) : feed.value[j] = feed.medias[j]

C15_Witness ==
    /\ feed.pc = "done"
    /\ feed.count = 3
    /\ feed.sleep = 2
    /\ Fetched(feed.log) = 2
    /\ feed.log[1].edges = 2
    /\ feed.log[3].edges = 2
    /\ feed.log[3].t = 2
    /\ Len(feed.medias) = 4
    /\ Len(feed.value) = 3

====
